---- MODULE Spec2Model ----
(***************************************************************************)
(* A model of the job/resume matching pipeline of tg_job_RAG:              *)
(*   src/src/ingestion.py  IngestionSubsystem (embedding retry loops,      *)
(*                         chunked ingestion into the "vacancies" store)   *)
(*   src/src/query.py      QuerySubsystem (scoped nearest-neighbour query, *)
(*                         reasoning, purge of a session's vacancies)      *)
(*   src/main.py           the Streamlit script that drives both, one      *)
(*                         st.session_state per browser session            *)
(*                                                                         *)
(* Python strings are sequences of one-character strings, so that strip(), *)
(* lower(), slicing and the substring tests of the code are computed.      *)
(* Python's None is the sequence None below, which no text equals.         *)
(***************************************************************************)
EXTENDS Integers, Sequences, FiniteSets, TLC

VARIABLES
    store,      \* the Firestore collection "vacancies": a set of documents
    nextTag,    \* how many uuid4 session tags have been drawn so far
    ss,         \* ss[u]: st.session_state of browser session u
    pc,         \* pc[u]: where the script run of browser session u stands
    ing,        \* ing[u]: the locals of u's ingest_jobs_batch call
    qry,        \* qry[u]: the locals of u's get_top_matches call
    del,        \* del[u]: the locals of u's delete_session_vacancies call
    emb         \* the frame of a direct get_embedding / get_embeddings_batch call

vars == <<store, nextTag, ss, pc, ing, qry, del, emb>>

(***************************************************************************)
(* Bounds of the model                                                     *)
(***************************************************************************)
MaxTags == 3        \* session tags (uploads of a jobs file) drawn in one behaviour
MaxDirectLen == 2   \* longest exhaustively enumerated short list of texts / jobs
MaxTopK == 3        \* largest value of the top_k slider that is tried (1..10 in the code)

(***************************************************************************)
(* Program constants                                                       *)
(***************************************************************************)
max_retries == 5    \* get_embedding / get_embeddings_batch default
EmbedCap == 250     \* provider ceiling named in get_embeddings_batch's docstring
BATCH_SIZE == 30    \* ingest_jobs_batch
DeleteCap == 500    \* delete_session_vacancies: if count >= 500
PromptCut == 3000   \* generate_reasoning: text[:3000]

(***************************************************************************)
(* Strings                                                                 *)
(***************************************************************************)
None == <<"<None>">>

Min(a, b) == IF a <= b THEN a ELSE b

Whitespace == {" ", "\n", "\t", "\r"}

\* str.strip(): leading and trailing whitespace removed
RECURSIVE LStrip(_)
LStrip(s) ==
    IF s # <<>> /\ Head(s) \in Whitespace THEN LStrip(Tail(s)) ELSE s

RECURSIVE RStrip(_)
RStrip(s) ==
    IF s # <<>> /\ s[Len(s)] \in Whitespace
    THEN RStrip(SubSeq(s, 1, Len(s) - 1))
    ELSE s

Strip(s) == RStrip(LStrip(s))

\* str.lower() on the letters the error messages use
LowerChar(c) ==
    CASE c = "C" -> "c"
      [] c = "A" -> "a"
      [] c = "Q" -> "q"
      [] c = "M" -> "m"
      [] c = "D" -> "d"
      [] OTHER -> c

Lower(s) == [k \in 1..Len(s) |-> LowerChar(s[k])]

\* pat in s
Contains(s, pat) ==
    \E k \in 1..(Len(s) - Len(pat) + 1) : SubSeq(s, k, k + Len(pat) - 1) = pat

\* s[:n]
Prefix(s, n) == SubSeq(s, 1, Min(Len(s), n))

\* str(n) of a natural number
Digit(d) ==
    CASE d = 0 -> "0" [] d = 1 -> "1" [] d = 2 -> "2" [] d = 3 -> "3"
      [] d = 4 -> "4" [] d = 5 -> "5" [] d = 6 -> "6" [] d = 7 -> "7"
      [] d = 8 -> "8" [] d = 9 -> "9"

RECURSIVE Str(_)
Str(n) == IF n < 10 THEN <<Digit(n)>> ELSE Append(Str(n \div 10), Digit(n % 10))

(***************************************************************************)
(* The embedding provider (Vertex AI TextEmbeddingModel), as the code      *)
(* sees it: a call answers with one embedding per text, in order, or       *)
(* raises an error whose message the code inspects.                        *)
(***************************************************************************)
S429 == <<"4", "2", "9">>
SQuota == <<"Q", "u", "o", "t", "a", " ", "e", "x", "c", "e", "e", "d", "e", "d">>

Msg429 == S429 \o <<" ">> \o SQuota
MsgQuota == SQuota
Msg500 == <<"5", "0", "0", " ", "I", "n", "t", "e", "r", "n", "a", "l">>
Msg400 == <<"4", "0", "0", " ", "I", "n", "v", "a", "l", "i", "d">>

EmbedErrors == {Msg429, MsgQuota, Msg500, Msg400}

Ok == [ok |-> TRUE, msg |-> <<>>]
Err(m) == [ok |-> FALSE, msg |-> m]

\* What the provider may answer to a request of these texts: a request over
\* the ceiling is never served.
ProviderOutcomes(texts) ==
    {Err(m) : m \in EmbedErrors} \cup (IF Len(texts) <= EmbedCap THEN {Ok} ELSE {})

\* The vector of a text: a sequence of one component, in hundredths, so that
\* the cosine distance of two texts is the difference of their components.
CharWeight(c) ==
    CASE c = "a" -> 10
      [] c = "b" -> 5
      [] c = "c" -> 30
      [] c = "d" -> 10
      [] OTHER -> 0

RECURSIVE Angle(_)
Angle(text) ==
    IF text = <<>> THEN 0 ELSE CharWeight(Head(text)) + Angle(Tail(text))

Embed(text) == <<Angle(text)>>

\* embedding_model.get_embeddings(texts) when it answers
ProviderEmbeddings(texts) == [k \in 1..Len(texts) |-> [values |-> Embed(texts[k])]]

(***************************************************************************)
(* get_embedding and get_embeddings_batch: the retry loop, one provider    *)
(* call per step.  A frame holds the loop's locals and a log of the calls  *)
(* made (calls: the list of texts each call sent), of the provider's last  *)
(* answer and of the sleeps taken (waits, in seconds).                     *)
(***************************************************************************)
MsgMaxRetries ==
    <<"M", "a", "x", " ", "r", "e", "t", "r", "i", "e", "s", " ",
      "e", "x", "c", "e", "e", "d", "e", "d", " ", "f", "o", "r", " ",
      "e", "m", "b", "e", "d", "d", "i", "n", "g", " ",
      "g", "e", "n", "e", "r", "a", "t", "i", "o", "n", ".">>

MsgMaxRetriesBatch ==
    <<"M", "a", "x", " ", "r", "e", "t", "r", "i", "e", "s", " ",
      "e", "x", "c", "e", "e", "d", "e", "d", " ", "f", "o", "r", " ",
      "b", "a", "t", "c", "h", " ",
      "e", "m", "b", "e", "d", "d", "i", "n", "g", " ",
      "g", "e", "n", "e", "r", "a", "t", "i", "o", "n">>

NoFrame ==
    [fn |-> "none", texts |-> <<>>, attempt |-> 0, status |-> "idle",
     calls |-> <<>>, waits |-> <<>>, answer |-> Ok, values |-> <<>>,
     error |-> <<>>]

\* the frame on entry of fn(texts)
EnterEmbed(fn, texts) == [NoFrame EXCEPT !.fn = fn, !.texts = texts, !.status = "calling"]

\* IsRateLimit taking every provider error for a rate limit
IsRateLimitAny(msg) == Len(msg) >= 0

\* "429" in str(e) or "Quota exceeded" in str(e)
IsRateLimit(msg) == Contains(msg, S429) \/ Contains(msg, SQuota)

\* wait_time = (2 ** attempt) * 2
WaitTime(attempt) == (2 ^ attempt) * 2

\* OnEmbedError with the loop bound off by one: a sixth call is made
OnEmbedErrorOffByOne(f, sent, msg, exhausted) ==
    IF Contains(msg, S429) \/ Contains(msg, SQuota)
    THEN [f EXCEPT !.calls = Append(@, sent), !.answer = Err(msg),
                   !.waits = Append(@, (2 ^ f.attempt) * 2),
                   !.attempt = @ + 1,
                   !.status = IF f.attempt + 1 <= max_retries THEN "calling" ELSE "raised",
                   !.error = IF f.attempt + 1 <= max_retries THEN @ ELSE exhausted]
    ELSE [f EXCEPT !.calls = Append(@, sent), !.answer = Err(msg),
                   !.status = "raised", !.error = msg]

\* the except branch of both loops: sleep and go round, or re-raise; falling
\* out of the loop raises the function's own error
OnEmbedError(f, sent, msg, exhausted) ==
    IF IsRateLimit(msg)
    THEN [f EXCEPT !.calls = Append(@, sent), !.answer = Err(msg),
                   !.waits = Append(@, WaitTime(f.attempt)),
                   !.attempt = @ + 1,
                   !.status = IF f.attempt + 1 < max_retries THEN "calling" ELSE "raised",
                   !.error = IF f.attempt + 1 < max_retries THEN @ ELSE exhausted]
    ELSE [f EXCEPT !.calls = Append(@, sent), !.answer = Err(msg),
                   !.status = "raised", !.error = msg]

\* one iteration of get_embedding's loop, the provider answering o
get_embedding(f, o) ==
    LET sent == <<f.texts[1]>>
    IN  IF o.ok
        THEN [f EXCEPT !.calls = Append(@, sent), !.answer = Ok,
                       !.status = "returned",
                       !.values = ProviderEmbeddings(sent)[1].values]
        ELSE OnEmbedError(f, sent, o.msg, MsgMaxRetries)

\* get_embeddings_batch returning as get_embedding does: embeddings[0].values
get_embeddings_batch_first(f, o) ==
    LET sent == f.texts
        embeddings == ProviderEmbeddings(sent)
    IN  IF o.ok
        THEN [f EXCEPT !.calls = Append(@, sent), !.answer = Ok,
                       !.status = "returned",
                       !.values = IF embeddings = <<>> THEN <<>> ELSE <<embeddings[1].values>>]
        ELSE OnEmbedError(f, sent, o.msg, MsgMaxRetriesBatch)

\* one iteration of get_embeddings_batch's loop, the provider answering o
get_embeddings_batch(f, o) ==
    LET sent == f.texts
        embeddings == ProviderEmbeddings(sent)
    IN  IF o.ok
        THEN [f EXCEPT !.calls = Append(@, sent), !.answer = Ok,
                       !.status = "returned",
                       !.values = [k \in 1..Len(embeddings) |-> embeddings[k].values]]
        ELSE OnEmbedError(f, sent, o.msg, MsgMaxRetriesBatch)

(***************************************************************************)
(* Inputs                                                                  *)
(***************************************************************************)
Users == {"u1", "u2"}

\* texts: empty, whitespace only, and texts with content
Texts == {<<>>, <<" ">>, <<"a">>, <<"b">>, <<" ", "c", " ">>}

\* every sequence over S of length at most n
SeqsUpTo(S, n) == UNION {[1..k -> S] : k \in 0..n}

\* a list of n texts with content, the k-th determined by k
LongTexts(n) ==
    [k \in 1..n |-> IF k % 3 = 0 THEN <<"c">> ELSE IF k % 3 = 1 THEN <<"a">> ELSE <<"b">>]

\* the lists a direct caller hands to get_embeddings_batch: the short ones,
\* one at the provider's ceiling and one over it
DirectLists == SeqsUpTo(Texts, MaxDirectLen) \cup {LongTexts(EmbedCap), LongTexts(EmbedCap + 1)}

(***************************************************************************)
(* The vacancies store (Firestore) and the reasoning provider (Gemini)     *)
(***************************************************************************)
S409 == <<"4", "0", "9">>
SContention == <<"c", "o", "n", "t", "e", "n", "t", "i", "o", "n">>

Msg409 == S409 \o <<" ", "A", "b", "o", "r", "t", "e", "d">>
MsgContention ==
    <<"T", "o", "o", " ", "m", "u", "c", "h", " ",
      "C", "o", "n", "t", "e", "n", "t", "i", "o", "n">>
Msg403 == <<"4", "0", "3", " ", "D", "e", "n", "i", "e", "d">>

\* what a commit of a write batch may answer
CommitOutcomes == {Ok, Err(Msg409), Err(MsgContention), Err(Msg403)}

\* what any other single call (a write of the query log, a generation) may answer
CallOutcomes == {Ok, Err(Msg500)}

\* a session tag: str(uuid.uuid4()), the n-th one drawn
Tag(n) == <<"s">> \o Str(n)

\* a value's truthiness, for texts and None: `if v` / `if not v`
Truthy(v) == v # None /\ v # <<>>

\* DocSet adding a document beside the one of that name, as collection.add does
DocAdd(docs, doc) == docs \cup {doc}

\* WriteBatch.set(doc_ref, data): the document of that name is replaced whole
DocSet(docs, doc) == {d \in docs : d.id # doc.id} \cup {doc}

\* WriteBatch.commit() of sets: the writes applied in the order they were added
RECURSIVE ApplyWrites(_, _)
ApplyWrites(docs, writes) ==
    IF writes = <<>> THEN docs
    ELSE ApplyWrites(DocSet(docs, Head(writes)), Tail(writes))

\* WriteBatch.commit() of deletes by reference
ApplyDeletes(docs, refs) == {d \in docs : d.id \notin refs}

\* the number a document name spells
RECURSIVE Num(_)
Num(s) ==
    IF s = <<>> THEN 0
    ELSE 10 * Num(SubSeq(s, 1, Len(s) - 1))
         + (CHOOSE d \in 0..9 : Digit(d) = s[Len(s)])

\* DistanceMeasure.COSINE between two vectors of the model, in hundredths
Distance(v, w) == IF v[1] >= w[1] THEN v[1] - w[1] ELSE w[1] - v[1]

\* d comes before e in a nearest-first ranking around vector q; equal
\* distances fall back on the store's own order, by document name
Nearer(q, d, e) ==
    \/ Distance(q, d.embedding) < Distance(q, e.embedding)
    \/ /\ Distance(q, d.embedding) = Distance(q, e.embedding)
       /\ Num(d.id) <= Num(e.id)

RECURSIVE Ranked(_, _, _)
Ranked(q, docs, limit) ==
    IF docs = {} \/ limit = 0 THEN <<>>
    ELSE LET first == CHOOSE d \in docs : \A e \in docs : Nearer(q, d, e)
         IN  <<first>> \o Ranked(q, docs \ {first}, limit - 1)

\* doc.to_dict() of a ranked document, with distance_result_field
ToDict(q, d) ==
    [job_id |-> d.job_id, description |-> d.description, date |-> d.date,
     embedding |-> d.embedding, session_id |-> d.session_id,
     vector_distance |-> Distance(q, d.embedding)]

\* find_nearest without the where clause: the whole collection is ranked
FindNearestUnscoped(docs, session_id, q, limit) ==
    LET ranked == Ranked(q, docs, limit)
    IN  [k \in 1..Len(ranked) |-> ToDict(q, ranked[k])]

\* query.py 30-43: the collection, narrowed by where("session_id", "==", ..)
\* if a session_id is given, ranked by find_nearest, streamed into dicts
FindNearest(docs, session_id, q, limit) ==
    LET scope == IF Truthy(session_id)
                 THEN {d \in docs : d.session_id = session_id}
                 ELSE docs
        ranked == Ranked(q, scope, limit)
    IN  [k \in 1..Len(ranked) |-> ToDict(q, ranked[k])]

\* what the model answers to a prompt: the text is the prompt it was given
PromptMain == <<"L", "i", "s", "t">>
PromptDefault == <<"L", "i", "s", "t", " ", "s", "k", "i", "l", "l", "s">>

\* generate_reasoning: the default prompt for None, both texts cut to 3000
generate_reasoning(resume_text, job_description, custom_prompt) ==
    [prompt |-> IF custom_prompt = None THEN PromptDefault ELSE custom_prompt,
     resume |-> Prefix(resume_text, PromptCut),
     job |-> Prefix(job_description, PromptCut)]

(***************************************************************************)
(* Jobs files                                                              *)
(***************************************************************************)
J(id, description) == [job_id |-> id, description |-> description, date |-> None]
Dated(job, date) == [job EXCEPT !.date = date]
Day == <<"2", "0", "2", "4", "-", "0", "1", "-", "0", "5">>

\* three jobs at distances 10, 5 and 30 of the resume <<"r">>
FileABC == <<Dated(J(1, <<"a">>), Day), J(2, <<"b">>), J(3, <<"c">>)>>
\* one record with description "" and two valid ones
FileBlank == <<J(1, <<>>), J(2, <<"a">>), J(3, <<"b">>)>>
\* the same job_id twice, the description changed
FileDup == <<J(1, <<"b">>), J(1, <<"c">>)>>
\* no valid record: whitespace only, and no description
FileNone == <<J(2, <<" ", "\n">>), J(3, None)>>
\* no valid record, as a parsed export has them: whitespace only, and ""
FileSpaces == <<J(2, <<" ", "\n", " ">>), J(3, <<>>)>>
\* one record more than a chunk holds
FileLong == [k \in 1..(BATCH_SIZE + 1) |-> J(k, LongTexts(BATCH_SIZE + 1)[k])]

\* two chunks and one record more, after a blank record in second place
FileLonger ==
    [k \in 1..(2 * BATCH_SIZE + 2) |->
        J(k, IF k = 2 THEN <<" ">> ELSE LongTexts(2 * BATCH_SIZE + 2)[k])]

\* n records with the job_ids 1 .. n
JobsTo(n) == [k \in 1..n |-> J(k, LongTexts(n)[k])]
\* as many records as one commit of deletes takes, and one more
FileCap == JobsTo(DeleteCap)
FileOverCap == JobsTo(DeleteCap + 1)
\* two records with job_ids no other list has
FileOther == <<J(901, <<"a">>), J(902, <<"b">>)>>

\* the records of the short lists
SmallJobs ==
    {J(1, d) : d \in {None, <<>>, <<" ">>, <<"a">>, <<"d", " ">>}}
        \cup {J(2, d) : d \in {<<>>, <<"a">>}}
        \cup {Dated(J(1, <<"b">>), Day)}

(***************************************************************************)
(* tg_export_parser: load_job_vacancies                                    *)
(***************************************************************************)
\* the value of an item's "text": None, a string, a list of values, a dict
\* with a "text" key (val holds its value), a dict without one (val holds
\* its values), or anything else
TextNone == [kind |-> "none", s |-> <<>>, val |-> <<>>]
TextStr(s) == [kind |-> "str", s |-> s, val |-> <<>>]
TextList(val) == [kind |-> "list", s |-> <<>>, val |-> val]
TextDict(value) == [kind |-> "dict_text", s |-> <<>>, val |-> <<value>>]
TextDictValues(val) == [kind |-> "dict", s |-> <<>>, val |-> val]
TextOther == [kind |-> "other", s |-> <<>>, val |-> <<>>]

\* value.replace("\r\n", "\n").replace("\r", "\n").replace("\n", " \n ")
RECURSIVE ReplaceNewlines(_)
ReplaceNewlines(s) ==
    IF s = <<>> THEN <<>>
    ELSE IF Len(s) >= 2 /\ s[1] = "\r" /\ s[2] = "\n"
         THEN <<" ", "\n", " ">> \o ReplaceNewlines(SubSeq(s, 3, Len(s)))
    ELSE IF s[1] \in {"\r", "\n"}
         THEN <<" ", "\n", " ">> \o ReplaceNewlines(Tail(s))
    ELSE <<s[1]>> \o ReplaceNewlines(Tail(s))

RECURSIVE concat_text_fields(_)
RECURSIVE JoinTexts(_)
\* "".join(concat_text_fields(v) for v in values)
JoinTexts(values) ==
    IF values = <<>> THEN <<>>
    ELSE concat_text_fields(Head(values)) \o JoinTexts(Tail(values))

concat_text_fields(value) ==
    CASE value.kind = "none" -> <<>>
      [] value.kind = "str" -> ReplaceNewlines(value.s)
      [] value.kind = "list" -> JoinTexts(value.val)
      [] value.kind = "dict_text" -> concat_text_fields(value.val[1])
      [] value.kind = "dict" -> JoinTexts(value.val)
      [] OTHER -> <<>>

\* an item of an export: a dict with its "type", its "id" if it has one,
\* its "text" and its "date"
Item(type, has_id, id, text, date) ==
    [type |-> type, has_id |-> has_id, id |-> id, text |-> text, date |-> date]

\* the vacancies list built from the candidates: the items of type
\* "message", each with its "id" or, if it has none, with the number of
\* vacancies before it
RECURSIVE Vacancies(_)
Vacancies(candidates) ==
    IF candidates = <<>> THEN <<>>
    ELSE LET before == Vacancies(SubSeq(candidates, 1, Len(candidates) - 1))
             item == candidates[Len(candidates)]
         IN  IF item.type = "message"
             THEN Append(before,
                         [job_id |-> IF item.has_id THEN item.id ELSE Len(before),
                          description |-> concat_text_fields(item.text),
                          date |-> item.date])
             ELSE before

\* a date pd.to_datetime reads: yyyy-mm-dd
IsDate(date) ==
    /\ date # None
    /\ Len(date) = 10
    /\ \A k \in 1..10 :
          IF k \in {5, 8} THEN date[k] = "-" ELSE \E d \in 0..9 : date[k] = Digit(d)

NaT == <<"<NaT>">>

\* pd.to_datetime(df["date"], errors="coerce"): what is no date becomes NaT
ToDatetime(date) == IF IsDate(date) THEN date ELSE NaT

\* the records of the DataFrame load_job_vacancies returns for an export
\* with at least one message (for one with none, df["date"] is missing and
\* the function raises ValueError)
load_job_vacancies(candidates) ==
    LET vacancies == Vacancies(candidates)
    IN  [k \in 1..Len(vacancies) |->
            [vacancies[k] EXCEPT !.date = ToDatetime(@)]]

\* an export of a channel: messages with their ids, a service item between
ExportChannel ==
    <<Item("message", TRUE, 1, TextStr(<<"a">>), Day),
      Item("service", TRUE, 2, TextStr(<<"c">>), Day),
      Item("message", TRUE, 3,
           TextList(<<TextStr(<<"b", "\r", "\n">>), TextDict(TextStr(<<"b">>)), TextOther>>),
           None)>>
\* a plain list of messages without ids
ExportList ==
    <<Item("message", FALSE, 0, TextStr(<<"a">>), None),
      Item("message", FALSE, 0, TextStr(<<"b">>), <<"s", "o", "o", "n">>)>>
\* another plain list without ids, other messages, one of them with no text
ExportOtherList ==
    <<Item("service", FALSE, 0, TextNone, None),
      Item("message", FALSE, 0, TextDictValues(<<TextStr(<<"c">>), TextNone>>), Day),
      Item("message", FALSE, 0, TextStr(<<"d", "\n", "d">>), Day),
      Item("message", FALSE, 0, TextNone, Day)>>

Exports == {ExportChannel, ExportList, ExportOtherList}

(***************************************************************************)
(* ingest_jobs_batch                                                       *)
(***************************************************************************)
\* the locals of a call, and a log of what it did: sleeps taken between
\* commit attempts, chunks committed, the documents its commits replaced,
\* the last progress report, the store's answer to each commit attempt (with
\* the chunk's offset i and the attempt it answered)
NoIngest ==
    [status |-> "idle", jobs_data |-> <<>>, session_id |-> None,
     valid_jobs |-> <<>>, i |-> 0, frame |-> NoFrame, embeddings |-> <<>>,
     attempt |-> 0, sleeps |-> <<>>, all_results |-> <<>>, committed |-> 0,
     replaced |-> {}, progress |-> <<>>, error |-> <<>>, answers |-> <<>>]

\* IsContention without the lower()
IsContentionCased(msg) == Contains(msg, S409) \/ Contains(msg, SContention)

\* IsValidJob without the strip()
IsValidJobUnstripped(job) == Truthy(job.description) /\ Len(job.description) > 0

\* job.get("description") and len(job["description"].strip()) > 0
IsValidJob(job) == Truthy(job.description) /\ Len(Strip(job.description)) > 0

\* valid_jobs: the records that pass, in input order
ValidJobs(jobs_data) == SelectSeq(jobs_data, IsValidJob)

\* Batch taking one record more than BATCH_SIZE
BatchWide(valid_jobs, i) ==
    SubSeq(valid_jobs, i + 1, Min(i + BATCH_SIZE + 1, Len(valid_jobs)))

\* valid_jobs[i:i+BATCH_SIZE]
Batch(valid_jobs, i) == SubSeq(valid_jobs, i + 1, Min(i + BATCH_SIZE, Len(valid_jobs)))

\* descriptions = [job["description"] for job in batch]
Descriptions(batch) == [k \in 1..Len(batch) |-> batch[k].description]

\* the document ingest_jobs_batch sets for a job (the server's timestamp
\* field is left out)
VacancyDoc(job, embedding, session_id) ==
    [id |-> Str(job.job_id), job_id |-> Str(job.job_id),
     description |-> job.description, date |-> job.date,
     embedding |-> embedding, session_id |-> session_id]

\* the writes of one commit attempt: for job, embedding in zip(batch, embeddings)
Writes(batch, embeddings, session_id) ==
    [k \in 1..Min(Len(batch), Len(embeddings)) |->
        VacancyDoc(batch[k], embeddings[k], session_id)]

\* what one commit attempt appends to all_results
Confirmations(batch, embeddings) ==
    [k \in 1..Min(Len(batch), Len(embeddings)) |->
        [job_id |-> Str(batch[k].job_id), embedding_dim |-> Len(embeddings[k])]]

\* "409" in str(e) or "contention" in str(e).lower()
IsContention(msg) == Contains(msg, S409) \/ Contains(Lower(msg), SContention)

\* the call up to its first provider call: validation, and the first chunk's
\* texts ready to embed; with no valid record the loop is not entered
EnterIngest(jobs_data, session_id) ==
    LET valid_jobs == ValidJobs(jobs_data)
    IN  [NoIngest EXCEPT
            !.status = IF valid_jobs = <<>> THEN "returned" ELSE "embedding",
            !.jobs_data = jobs_data,
            !.session_id = session_id,
            !.valid_jobs = valid_jobs,
            !.frame = IF valid_jobs = <<>> THEN NoFrame
                      ELSE EnterEmbed("get_embeddings_batch",
                                      Descriptions(Batch(valid_jobs, 0)))]

\* one provider call of get_embeddings_batch for the chunk at i; when the
\* function returns, its frame is gone and its vectors are kept
IngestEmbedStep(g, o) ==
    LET f == get_embeddings_batch(g.frame, o)
    IN  CASE f.status = "returned" ->
               [g EXCEPT !.frame = NoFrame, !.embeddings = f.values, !.attempt = 0,
                         !.status = "committing"]
          [] f.status = "raised" ->
               [g EXCEPT !.frame = f, !.status = "raised", !.error = f.error]
          [] OTHER -> [g EXCEPT !.frame = f]

\* one attempt of the commit loop for the chunk at i, the store answering o;
\* after a commit the progress report and, if records are left, the pause and
\* the next chunk's texts
IngestCommitStep(g, o, docs) ==
    LET batch == Batch(g.valid_jobs, g.i)
        total_jobs == Len(g.valid_jobs)
        results == g.all_results \o Confirmations(batch, g.embeddings)
        more == g.i + BATCH_SIZE < total_jobs
        answers == Append(g.answers, [i |-> g.i, attempt |-> g.attempt, ok |-> o.ok,
                                      msg |-> IF o.ok THEN <<>> ELSE o.msg])
    IN  IF o.ok
        THEN [g EXCEPT
                !.all_results = results,
                !.answers = answers,
                !.committed = @ + 1,
                !.replaced = @ \cup {d \in docs : \E k \in 1..Len(batch) :
                                                    d.id = Str(batch[k].job_id)},
                !.progress = <<Min(g.i + BATCH_SIZE, total_jobs), total_jobs>>,
                !.i = IF more THEN g.i + BATCH_SIZE ELSE @,
                !.frame = IF more
                          THEN EnterEmbed("get_embeddings_batch",
                                          Descriptions(Batch(g.valid_jobs, g.i + BATCH_SIZE)))
                          ELSE @,
                !.status = IF more THEN "embedding" ELSE "returned"]
        ELSE IF IsContention(o.msg) /\ g.attempt < 2
        THEN [g EXCEPT !.all_results = results,
                       !.answers = answers,
                       !.sleeps = Append(@, 2 ^ g.attempt),
                       !.attempt = @ + 1]
        ELSE [g EXCEPT !.all_results = results, !.answers = answers,
                       !.status = "raised", !.error = o.msg]

(***************************************************************************)
(* get_top_matches                                                         *)
(***************************************************************************)
NoQuery ==
    [status |-> "idle", resume_text |-> None, session_id |-> None, top_k |-> 0,
     prompt |-> None, embed_calls |-> 0, store_calls |-> 0,
     reasoning_calls |-> 0, resume_embedding |-> <<>>, ranked |-> <<>>,
     top_jobs |-> <<>>, idx |-> 0, error |-> <<>>]

EnterQuery(resume_text, session_id, top_k, prompt) ==
    [NoQuery EXCEPT !.status = "embedding", !.resume_text = resume_text,
                    !.session_id = session_id, !.top_k = top_k, !.prompt = prompt]

\* query.py 24-25: the one, unguarded, provider call for the resume
QueryEmbedStep(q, o) ==
    IF o.ok
    THEN [q EXCEPT !.embed_calls = @ + 1, !.status = "searching",
                   !.resume_embedding = ProviderEmbeddings(<<q.resume_text>>)[1].values]
    ELSE [q EXCEPT !.embed_calls = @ + 1, !.status = "raised", !.error = o.msg]

\* QueryFindStep taking an empty result for an error
QueryFindStepStrict(q, docs) ==
    LET top_jobs == FindNearest(docs, q.session_id, q.resume_embedding, q.top_k)
    IN  [q EXCEPT !.store_calls = @ + 1, !.ranked = top_jobs, !.top_jobs = top_jobs,
                  !.idx = 0,
                  !.status = IF top_jobs = <<>> THEN "raised" ELSE "reasoning",
                  !.error = IF top_jobs = <<>> THEN Msg400 ELSE @]

\* query.py 30-50: the ranked documents; with none of them the loop over
\* them has nothing to do and the empty list is returned
QueryFindStep(q, docs) ==
    LET top_jobs == FindNearest(docs, q.session_id, q.resume_embedding, q.top_k)
    IN  [q EXCEPT !.store_calls = @ + 1, !.ranked = top_jobs, !.top_jobs = top_jobs,
                  !.idx = 0,
                  !.status = IF top_jobs = <<>> THEN "returned" ELSE "reasoning"]

\* AttachReasoning moving the job it annotates to the head of the list
AttachReasoningFirst(top_jobs, idx, text) ==
    <<[reasoning |-> text] @@ top_jobs[idx + 1]>>
        \o SubSeq(top_jobs, 1, idx) \o SubSeq(top_jobs, idx + 2, Len(top_jobs))

\* job["reasoning"] = text, for the job at position idx (from 0)
AttachReasoning(top_jobs, idx, text) ==
    [top_jobs EXCEPT ![idx + 1] = [reasoning |-> text] @@ @]

\* query.py 52-58: one round of the loop, the reasoning provider answering o
QueryReasonStep(q, o) ==
    IF o.ok
    THEN [q EXCEPT
            !.reasoning_calls = @ + 1,
            !.top_jobs = AttachReasoning(@, q.idx,
                            generate_reasoning(q.resume_text,
                                               q.top_jobs[q.idx + 1].description,
                                               q.prompt)),
            !.idx = @ + 1,
            !.status = IF q.idx + 1 < Len(q.top_jobs) THEN "reasoning" ELSE "returned"]
    ELSE [q EXCEPT !.reasoning_calls = @ + 1, !.status = "raised", !.error = o.msg]

(***************************************************************************)
(* delete_session_vacancies                                                *)
(***************************************************************************)
\* the locals of a call, with the number of documents its stream held
\* and the number of commits it has made
NoDelete ==
    [status |-> "idle", session_id |-> None, pending |-> <<>>, commits |-> 0,
     error |-> <<>>, streamed |-> 0]

\* the names of the documents of a set, in the store's order: the numbers
\* the names spell, ascending, spelled again
Refs(docs) ==
    IF docs = {} THEN <<>>
    ELSE LET nums == {Num(d.id) : d \in docs}
             top == CHOOSE n \in nums : \A m \in nums : m <= n
             sorted == SelectSeq([k \in 1..(top + 1) |-> k - 1], LAMBDA n : n \in nums)
         IN  [k \in 1..Len(sorted) |-> Str(sorted[k])]

\* query.py 78-83: nothing to do without a session_id; else the documents
\* where("session_id", "==", session_id) are streamed
EnterDelete(session_id, docs) ==
    LET pending == IF ~Truthy(session_id) THEN <<>>
                   ELSE Refs({d \in docs : d.session_id = session_id})
    IN  [NoDelete EXCEPT !.session_id = session_id, !.pending = pending,
                         !.streamed = Len(pending),
                         !.status = IF pending = <<>> THEN "returned" ELSE "deleting"]

\* the references the next commit carries: 500 of them, or the remainder
NextDeletes(d) == SubSeq(d.pending, 1, Min(DeleteCap, Len(d.pending)))

\* DeleteCommitStep without the commit of what is left after the loop
DeleteCommitStepNoTail(d, o) ==
    LET rest == SubSeq(d.pending, Len(NextDeletes(d)) + 1, Len(d.pending))
    IN  IF o.ok
        THEN [d EXCEPT !.pending = rest, !.commits = @ + 1,
                       !.status = IF Len(rest) < DeleteCap THEN "returned" ELSE "deleting"]
        ELSE [d EXCEPT !.status = "raised", !.error = o.msg]

\* query.py 85-94: the loop up to its next commit, the store answering o
DeleteCommitStep(d, o) ==
    LET rest == SubSeq(d.pending, Len(NextDeletes(d)) + 1, Len(d.pending))
    IN  IF o.ok
        THEN [d EXCEPT !.pending = rest, !.commits = @ + 1,
                       !.status = IF rest = <<>> THEN "returned" ELSE "deleting"]
        ELSE [d EXCEPT !.status = "raised", !.error = o.msg]

(***************************************************************************)
(* main: st.session_state of one browser session                           *)
(***************************************************************************)
\* a key that is absent reads as None / False through .get()
NoSession ==
    [resume_uploaded |-> FALSE, resume_text |-> None, jobs_uploaded |-> FALSE,
     session_id |-> None, has_matches |-> FALSE, matches |-> <<>>]

\* OnMatches put off until after the purge
OnMatchesLater(s, matches) == s

\* main.py 130: st.session_state.matches = matches
OnMatches(s, matches) == [s EXCEPT !.has_matches = TRUE, !.matches = matches]

\* main.py 134-140: jobs_uploaded = False, then every key but the subsystems
\* and matches is deleted
Cleanup(s) == [NoSession EXCEPT !.has_matches = s.has_matches, !.matches = s.matches]

\* main.py 150-163: the matches the page shows
Displayed(s) == IF s.has_matches /\ s.matches # <<>> THEN s.matches ELSE <<>>

(***************************************************************************)
(* Initial state                                                           *)
(***************************************************************************)
Init ==
    /\ store = {}
    /\ nextTag = 0
    /\ ss = [u \in Users |-> NoSession]
    /\ pc = [u \in Users |-> "idle"]
    /\ ing = [u \in Users |-> NoIngest]
    /\ qry = [u \in Users |-> NoQuery]
    /\ del = [u \in Users |-> NoDelete]
    /\ emb = NoFrame

(***************************************************************************)
(* The embedding functions called on their own                             *)
(***************************************************************************)
app == <<store, nextTag, ss, pc, ing, qry, del>>

CallGetEmbedding(text) ==
    /\ emb.status = "idle"
    /\ emb' = EnterEmbed("get_embedding", <<text>>)
    /\ UNCHANGED app

CallGetEmbeddingsBatch(texts) ==
    /\ emb.status = "idle"
    /\ emb' = EnterEmbed("get_embeddings_batch", texts)
    /\ UNCHANGED app

\* one iteration of the called function's loop
EmbedAttempt ==
    /\ emb.status = "calling"
    /\ \E o \in ProviderOutcomes(IF emb.fn = "get_embedding" THEN <<emb.texts[1]>> ELSE emb.texts) :
          emb' = IF emb.fn = "get_embedding"
                 THEN get_embedding(emb, o)
                 ELSE get_embeddings_batch(emb, o)
    /\ UNCHANGED app

NextEmbed ==
    \/ \E text \in Texts : CallGetEmbedding(text)
    \/ \E texts \in DirectLists : CallGetEmbeddingsBatch(texts)
    \/ EmbedAttempt

SpecEmbed == Init /\ [][NextEmbed]_vars

(***************************************************************************)
(* The script runs of the browser sessions.  A run is cut at every call of *)
(* a provider or of the store, so that the runs of two sessions interleave *)
(* at those calls.  pc[u] is "idle" between runs and "ended" when a run    *)
(* has come to its end, its calls' locals still to be seen; EndRun then    *)
(* discards them.                                                          *)
(*                                                                         *)
(* env is what surrounds the program in a specification: the jobs files    *)
(* and resumes that are uploaded, the values of the slider, and the        *)
(* answers of the embedding provider and of the store's commits.           *)
(***************************************************************************)
EmbedAnswers(env, texts) ==
    {o \in ProviderOutcomes(texts) : o.ok \/ o.msg \in env.embedErrors}

CommitAnswers(env) == {o \in CommitOutcomes : o.ok \/ o.msg \in env.commitErrors}

\* main.py 37-45: a resume is uploaded and its text extracted
UploadResume(u, text) ==
    /\ pc[u] = "idle"
    /\ ~ss[u].resume_uploaded
    /\ ss' = [ss EXCEPT ![u].resume_text = text, ![u].resume_uploaded = TRUE]
    /\ UNCHANGED <<store, nextTag, pc, ing, qry, del, emb>>

\* main.py 51-85, up to the first provider call of ingest_jobs_batch
UploadJobs(u, jobs_list) ==
    /\ pc[u] = "idle"
    /\ ~ss[u].jobs_uploaded
    /\ nextTag < MaxTags
    /\ LET session_id == Tag(nextTag + 1)
           g == EnterIngest(jobs_list, session_id)
       IN  /\ nextTag' = nextTag + 1
           /\ ing' = [ing EXCEPT ![u] = g]
           /\ ss' = [ss EXCEPT ![u].session_id = session_id,
                               ![u].jobs_uploaded = (g.status = "returned")]
           /\ pc' = [pc EXCEPT ![u] = IF g.status = "returned" THEN "ended" ELSE "ingest"]
    /\ UNCHANGED <<store, qry, del, emb>>

\* ingest_jobs_batch called on its own, up to its first provider call
CallIngest(u, jobs_list) ==
    /\ pc[u] = "idle"
    /\ nextTag < MaxTags
    /\ LET g == EnterIngest(jobs_list, Tag(nextTag + 1))
       IN  /\ nextTag' = nextTag + 1
           /\ ing' = [ing EXCEPT ![u] = g]
           /\ pc' = [pc EXCEPT ![u] = IF g.status = "returned" THEN "ended" ELSE "ingest_call"]
    /\ UNCHANGED <<store, ss, qry, del, emb>>

\* ingestion.py 96: one provider call for the chunk's embeddings
IngestEmbed(u, env) ==
    /\ pc[u] \in {"ingest", "ingest_call"}
    /\ ing[u].status = "embedding"
    /\ \E o \in EmbedAnswers(env, ing[u].frame.texts) :
          LET g == IngestEmbedStep(ing[u], o)
          IN  /\ ing' = [ing EXCEPT ![u] = g]
              /\ pc' = [pc EXCEPT ![u] = IF g.status = "raised" THEN "ended" ELSE @]
    /\ UNCHANGED <<store, nextTag, ss, qry, del, emb>>

\* ingestion.py 99-135: one commit attempt for the chunk; main.py 80-83 when
\* the call returns to main
IngestCommit(u, env) ==
    /\ pc[u] \in {"ingest", "ingest_call"}
    /\ ing[u].status = "committing"
    /\ \E o \in CommitAnswers(env) :
          LET g == IngestCommitStep(ing[u], o, store)
              writes == Writes(Batch(ing[u].valid_jobs, ing[u].i), ing[u].embeddings,
                               ing[u].session_id)
          IN  /\ ing' = [ing EXCEPT ![u] = g]
              /\ store' = IF o.ok THEN ApplyWrites(store, writes) ELSE store
              /\ ss' = [ss EXCEPT ![u].jobs_uploaded =
                                      IF pc[u] = "ingest" THEN g.status = "returned" ELSE @]
              /\ pc' = [pc EXCEPT ![u] = IF g.status \in {"returned", "raised"}
                                         THEN "ended" ELSE @]
    /\ UNCHANGED <<nextTag, qry, del, emb>>

\* main.py 97-122: Find Matches is clicked
FindMatches(u, top_k) ==
    /\ pc[u] = "idle"
    /\ ss[u].resume_uploaded
    /\ ss[u].jobs_uploaded
    /\ qry' = [qry EXCEPT ![u] = EnterQuery(ss[u].resume_text, ss[u].session_id,
                                            top_k, PromptMain)]
    /\ pc' = [pc EXCEPT ![u] = "match"]
    /\ UNCHANGED <<store, nextTag, ss, ing, del, emb>>

\* query.py 24: the resume is embedded
QueryEmbed(u, env) ==
    /\ pc[u] = "match"
    /\ qry[u].status = "embedding"
    /\ \E o \in EmbedAnswers(env, <<qry[u].resume_text>>) :
          LET q == QueryEmbedStep(qry[u], o)
          IN  /\ qry' = [qry EXCEPT ![u] = q]
              /\ pc' = [pc EXCEPT ![u] = IF q.status = "raised" THEN "ended" ELSE @]
    /\ UNCHANGED <<store, nextTag, ss, ing, del, emb>>

\* query.py 30-50: the store is searched; main.py 141-143 when nothing is found
QueryFind(u) ==
    /\ pc[u] = "match"
    /\ qry[u].status = "searching"
    /\ LET q == QueryFindStep(qry[u], store)
       IN  /\ qry' = [qry EXCEPT ![u] = q]
           /\ ss' = [ss EXCEPT ![u] = IF q.status = "returned"
                                      THEN OnMatches(@, <<>>) ELSE @]
           /\ pc' = [pc EXCEPT ![u] = IF q.status \in {"returned", "raised"}
                                      THEN "ended" ELSE @]
    /\ UNCHANGED <<store, nextTag, ing, del, emb>>

\* query.py 52-58: the reasoning for the next job
QueryReason(u) ==
    /\ pc[u] = "match"
    /\ qry[u].status = "reasoning"
    /\ \E o \in CallOutcomes :
          LET q == QueryReasonStep(qry[u], o)
          IN  /\ qry' = [qry EXCEPT ![u] = q]
              /\ pc' = [pc EXCEPT ![u] = CASE q.status = "raised" -> "ended"
                                           [] q.status = "returned" -> "log"
                                           [] OTHER -> @]
    /\ UNCHANGED <<store, nextTag, ss, ing, del, emb>>

\* main.py 127-131: the query is logged and the matches are kept
MatchLog(u) ==
    /\ pc[u] = "log"
    /\ \E o \in CallOutcomes :
          /\ ss' = [ss EXCEPT ![u] = IF o.ok THEN OnMatches(@, qry[u].top_jobs) ELSE @]
          /\ pc' = [pc EXCEPT ![u] = IF o.ok THEN "purge" ELSE "ended"]
    /\ UNCHANGED <<store, nextTag, ing, qry, del, emb>>

\* main.py 133, query.py 78-83: the purge begins; with nothing to delete it
\* returns and main.py 134-140 follow
PurgeStart(u) ==
    /\ pc[u] = "purge"
    /\ del[u].status = "idle"
    /\ LET d == EnterDelete(qry[u].session_id, store)
       IN  /\ del' = [del EXCEPT ![u] = d]
           /\ ss' = [ss EXCEPT ![u] = IF d.status = "returned" THEN Cleanup(@) ELSE @]
           /\ pc' = [pc EXCEPT ![u] = IF d.status = "returned" THEN "ended" ELSE @]
    /\ UNCHANGED <<store, nextTag, ing, qry, emb>>

\* query.py 85-94: the next commit of deletes; main.py 134-140 when the purge
\* returns, main.py 145-148 when it raises
PurgeCommit(u, env) ==
    /\ pc[u] = "purge"
    /\ del[u].status = "deleting"
    /\ \E o \in CommitAnswers(env) :
          LET d == DeleteCommitStep(del[u], o)
          IN  /\ del' = [del EXCEPT ![u] = d]
              /\ store' = IF o.ok
                          THEN ApplyDeletes(store, {del[u].pending[k] :
                                                      k \in 1..Len(NextDeletes(del[u]))})
                          ELSE store
              /\ ss' = [ss EXCEPT ![u] = IF d.status = "returned" THEN Cleanup(@) ELSE @]
              /\ pc' = [pc EXCEPT ![u] = IF d.status \in {"returned", "raised"}
                                         THEN "ended" ELSE @]
    /\ UNCHANGED <<nextTag, ing, qry, emb>>

\* the run is over: the page stands as st.session_state has it, the locals
\* of the calls are gone
EndRun(u) ==
    /\ pc[u] = "ended"
    /\ pc' = [pc EXCEPT ![u] = "idle"]
    /\ ing' = [ing EXCEPT ![u] = NoIngest]
    /\ qry' = [qry EXCEPT ![u] = NoQuery]
    /\ del' = [del EXCEPT ![u] = NoDelete]
    /\ UNCHANGED <<store, nextTag, ss, emb>>

\* the steps of the script runs of the browser sessions of env
NextApp(env) ==
    \E u \in env.users :
        \/ \E text \in env.resumes : UploadResume(u, text)
        \/ \E jobs_list \in env.files : UploadJobs(u, jobs_list)
        \/ IngestEmbed(u, env)
        \/ IngestCommit(u, env)
        \/ \E top_k \in env.topks : FindMatches(u, top_k)
        \/ QueryEmbed(u, env)
        \/ QueryFind(u)
        \/ QueryReason(u)
        \/ MatchLog(u)
        \/ PurgeStart(u)
        \/ PurgeCommit(u, env)
        \/ EndRun(u)

\* two browser sessions over one store, their runs interleaved; the
\* providers and the store answer or fail, without rate limits or contention
DuoEnv ==
    [users |-> Users,
     files |-> {FileABC, FileBlank, FileSpaces},
     resumes |-> {<<"r">>},
     topks |-> {MaxTopK},
     embedErrors |-> {Msg500},
     commitErrors |-> {Msg403}]

Next == NextApp(DuoEnv)

Spec == Init /\ [][Next]_vars

\* two browser sessions over one store, each uploading an export that
\* load_job_vacancies has read; the providers and the store answer every call
ShareEnv ==
    [users |-> Users,
     files |-> {load_job_vacancies(candidates) : candidates \in Exports},
     resumes |-> {<<"r">>},
     topks |-> {MaxTopK},
     embedErrors |-> {},
     commitErrors |-> {}]

NextShare == NextApp(ShareEnv)

SpecShare == Init /\ [][NextShare]_vars

\* one browser session, with every resume, slider value and answer
SoloEnv ==
    [users |-> {"u1"},
     files |-> {FileABC, FileBlank, FileDup, FileSpaces, FileLong},
     resumes |-> {<<>>, <<" ">>, <<"r">>},
     topks |-> 1..MaxTopK,
     embedErrors |-> {Msg429, Msg500},
     commitErrors |-> {MsgContention, Msg403}]

NextMatch == NextApp(SoloEnv)

SpecMatch == Init /\ [][NextMatch]_vars

\* ingest_jobs_batch called run after run by one caller, each run under a
\* new tag: the first with any short jobs list or one of two or three chunks,
\* the later ones with one of a few lists that ingest the same job_ids again
\* or with a list of one record
IngestEnv ==
    [users |-> {"u1"},
     files |-> {FileABC, FileBlank, FileDup, FileNone, FileLong, FileLonger}
                 \cup SeqsUpTo(SmallJobs, MaxDirectLen),
     refiles |-> {FileABC, FileBlank, FileDup, FileNone,
                  <<J(1, <<"d", " ">>), J(2, <<"a">>)>>}
                   \cup SeqsUpTo(SmallJobs, 1),
     embedErrors |-> EmbedErrors,
     commitErrors |-> {Msg409, MsgContention, Msg403}]

NextIngest ==
    \E u \in IngestEnv.users :
        \/ \E jobs_list \in (IF nextTag = 0 THEN IngestEnv.files ELSE IngestEnv.refiles) :
              CallIngest(u, jobs_list)
        \/ IngestEmbed(u, IngestEnv)
        \/ IngestCommit(u, IngestEnv)
        \/ EndRun(u)

SpecIngest == Init /\ [][NextIngest]_vars

\* delete_session_vacancies called on its own, up to its first commit
CallDelete(u, session_id) ==
    /\ pc[u] = "idle"
    /\ LET d == EnterDelete(session_id, store)
       IN  /\ del' = [del EXCEPT ![u] = d]
           /\ pc' = [pc EXCEPT ![u] = IF d.status = "returned" THEN "ended" ELSE "purge_call"]
    /\ UNCHANGED <<store, nextTag, ss, ing, qry, emb>>

\* query.py 85-94: the next commit of deletes of a call made on its own
DeleteCommit(u, env) ==
    /\ pc[u] = "purge_call"
    /\ del[u].status = "deleting"
    /\ \E o \in CommitAnswers(env) :
          LET d == DeleteCommitStep(del[u], o)
          IN  /\ del' = [del EXCEPT ![u] = d]
              /\ store' = IF o.ok
                          THEN ApplyDeletes(store, {del[u].pending[k] :
                                                      k \in 1..Len(NextDeletes(del[u]))})
                          ELSE store
              /\ pc' = [pc EXCEPT ![u] = IF d.status \in {"returned", "raised"}
                                         THEN "ended" ELSE @]
    /\ UNCHANGED <<nextTag, ss, ing, qry, emb>>

\* one caller fills the store run after run, the provider and the store
\* answering every call of a run, and calls delete_session_vacancies between
\* the runs with no tag, a tag that was drawn or one that was not; a commit
\* of deletes is answered or refused
FillEnv ==
    [users |-> {"u1"},
     files |-> {FileABC, FileSpaces, FileCap, FileOverCap},
     refiles |-> {FileABC, FileOther},
     embedErrors |-> {},
     commitErrors |-> {}]

PurgeEnv == [FillEnv EXCEPT !.commitErrors = {Msg403}]

PurgeTags == {None, <<>>} \cup {Tag(n) : n \in 1..MaxTags}

NextPurge ==
    \E u \in FillEnv.users :
        \/ \E jobs_list \in (IF nextTag = 0 THEN FillEnv.files ELSE FillEnv.refiles) :
              CallIngest(u, jobs_list)
        \/ IngestEmbed(u, FillEnv)
        \/ IngestCommit(u, FillEnv)
        \/ \E session_id \in PurgeTags : CallDelete(u, session_id)
        \/ DeleteCommit(u, PurgeEnv)
        \/ EndRun(u)

SpecPurge == Init /\ [][NextPurge]_vars

(***************************************************************************)
(* Claims about the embedding functions, checked under SpecEmbed           *)
(***************************************************************************)
ExhaustedError(fn) == IF fn = "get_embedding" THEN MsgMaxRetries ELSE MsgMaxRetriesBatch

\* every call made so far was answered with a rate-limit signal: each such
\* answer, and no other, is followed by a sleep
AllRateLimited(f) == Len(f.waits) = Len(f.calls)

\* C3: against a provider that answers every call with a rate-limit or quota
\* signal, get_embedding and get_embeddings_batch go on calling until they
\* have made 5 calls, never make a 6th, and then raise their own "Max retries
\* exceeded" error, which is none of the provider's; the sleep after failed
\* attempt a (0..4) is 2 * 2^a seconds.
C3_RetryBound ==
    /\ Len(emb.calls) <= 5
    /\ \A a \in 0..(Len(emb.waits) - 1) : emb.waits[a + 1] = 2 * (2 ^ a)
    /\ (emb.status # "idle" /\ AllRateLimited(emb) /\ Len(emb.calls) < 5)
          => emb.status = "calling"
    /\ (emb.status # "idle" /\ AllRateLimited(emb) /\ Len(emb.calls) = 5)
          => /\ emb.status = "raised"
             /\ emb.error = ExhaustedError(emb.fn)
             /\ emb.error \notin EmbedErrors
             /\ emb.waits = <<2, 4, 8, 16, 32>>

C3_Witness ==
    /\ emb.fn = "get_embeddings_batch"
    /\ emb.status = "raised"
    /\ emb.error = MsgMaxRetriesBatch
    /\ Len(emb.calls) = 5

\* the provider errors that are no rate-limit or quota signal
PermanentErrors == {Msg500, Msg400}

\* C4: a provider call that fails with an error that is no rate-limit or
\* quota signal makes get_embedding and get_embeddings_batch raise that very
\* error at once, at whatever attempt: no sleep follows it, and once raised
\* no further provider call is made.
C4_NonRetryable ==
    [][/\ (emb.status = "raised") => (emb' = emb)
       /\ (Len(emb'.calls) = Len(emb.calls) + 1 /\ ~emb'.answer.ok
             /\ emb'.answer.msg \in PermanentErrors)
            => /\ emb'.status = "raised"
               /\ emb'.error = emb'.answer.msg
               /\ emb'.waits = emb.waits
               /\ emb'.attempt = emb.attempt]_vars

C4_Witness ==
    /\ emb.fn = "get_embedding"
    /\ emb.status = "raised"
    /\ emb.error = Msg500
    /\ emb.attempt = 3
    /\ Len(emb.calls) = 4

\* C7 as stated: get_embeddings_batch never hands the provider more than the
\* cap in one call, and returns one vector per text in input order.
C7_SplitsToCap ==
    emb.fn = "get_embeddings_batch" =>
        /\ \A k \in 1..Len(emb.calls) : Len(emb.calls[k]) <= EmbedCap
        /\ emb.status = "returned" =>
              /\ Len(emb.values) = Len(emb.texts)
              /\ \A k \in 1..Len(emb.texts) : emb.values[k] = Embed(emb.texts[k])

\* C7 amended: get_embeddings_batch does not split: every provider call it
\* makes receives the whole input list, whatever its length; when it returns,
\* it returns one vector per input text, in input order.
C7_WholeListPerCall ==
    emb.fn = "get_embeddings_batch" =>
        /\ \A k \in 1..Len(emb.calls) : emb.calls[k] = emb.texts
        /\ emb.status = "returned" =>
              /\ Len(emb.values) = Len(emb.texts)
              /\ \A k \in 1..Len(emb.texts) : emb.values[k] = Embed(emb.texts[k])

C7_Witness ==
    /\ emb.fn = "get_embeddings_batch"
    /\ emb.status = "returned"
    /\ Len(emb.texts) = EmbedCap
    /\ Len(emb.calls) = 2

(***************************************************************************)
(* Claims about the match round, checked under Spec and SpecMatch          *)
(***************************************************************************)
\* C1: whatever the interleaving of the ingestions of two sessions, every
\* record that get_top_matches ranks and returns for a session tag carries
\* that tag: none that another tag's ingestion wrote is among them.
C1_Scoped ==
    \A u \in Users :
        (qry[u].status \in {"reasoning", "returned"} /\ Truthy(qry[u].session_id))
            => \A k \in 1..Len(qry[u].top_jobs) :
                  qry[u].top_jobs[k].session_id = qry[u].session_id

C1_Witness ==
    /\ qry["u1"].status = "returned"
    /\ Len(qry["u1"].top_jobs) = 2
    /\ \E d \in store : d.session_id # qry["u1"].session_id
    /\ pc["u2"] = "purge"

\* C2: the list get_top_matches returns is the store's ranking, entry for
\* entry, each with the reasoning about its own job attached, and so in
\* ascending distance: nothing is reordered, dropped or duplicated.
C2_Ordering ==
    \A u \in Users :
        qry[u].status = "returned" =>
            /\ Len(qry[u].top_jobs) = Len(qry[u].ranked)
            /\ \A k \in 1..Len(qry[u].ranked) :
                  /\ \A field \in DOMAIN qry[u].ranked[k] :
                        qry[u].top_jobs[k][field] = qry[u].ranked[k][field]
                  /\ qry[u].top_jobs[k].reasoning.job
                        = Prefix(qry[u].ranked[k].description, 3000)
                  /\ qry[u].top_jobs[k].reasoning.resume
                        = Prefix(qry[u].resume_text, 3000)
            /\ \A k \in 1..(Len(qry[u].top_jobs) - 1) :
                  qry[u].top_jobs[k].vector_distance
                      <= qry[u].top_jobs[k + 1].vector_distance

\* jobs 1, 2, 3 at distances 10, 5, 30 come back as 2, 1, 3
C2_Witness ==
    /\ qry["u1"].status = "returned"
    /\ [k \in 1..Len(qry["u1"].top_jobs) |-> qry["u1"].top_jobs[k].job_id]
          = <<Str(2), Str(1), Str(3)>>
    /\ [k \in 1..Len(qry["u1"].top_jobs) |-> qry["u1"].top_jobs[k].vector_distance]
          = <<5, 10, 30>>

\* C8: when the search finds no record in the queried scope, get_top_matches
\* returns the empty list, raises nothing and has made no reasoning call.
C8_EmptyScope ==
    [][\A u \in Users :
          (/\ qry[u].status = "searching"
           /\ qry'[u].status # "searching"
           /\ {d \in store : d.session_id = qry[u].session_id} = {})
            => /\ qry'[u].status = "returned"
               /\ qry'[u].top_jobs = <<>>
               /\ qry'[u].reasoning_calls = 0
               /\ qry'[u].error = <<>>
               /\ ss'[u].has_matches /\ ss'[u].matches = <<>>]_vars

C8_Witness ==
    /\ qry["u1"].status = "returned"
    /\ qry["u1"].store_calls = 1
    /\ qry["u1"].top_jobs = <<>>
    /\ {d \in store : d.session_id = qry["u1"].session_id} = {}

\* a text that is None, empty or whitespace only
Blank(v) == v = None \/ \A k \in 1..Len(v) : v[k] \in Whitespace

\* C9: with an empty or whitespace-only resume get_top_matches makes no call
\* to the embedding provider, to the store or to the reasoning provider; with
\* any other resume it makes exactly one embedding call.
C9_FailFast ==
    \A u \in Users :
        /\ (qry[u].status # "idle" /\ Blank(qry[u].resume_text))
              => /\ qry[u].embed_calls = 0
                 /\ qry[u].store_calls = 0
                 /\ qry[u].reasoning_calls = 0
        /\ (qry[u].status \in {"searching", "reasoning", "returned"}
              /\ ~Blank(qry[u].resume_text))
              => qry[u].embed_calls = 1

\* C10: when the purge that follows a non-empty result fails, the matches of
\* the round are in st.session_state.matches, unaltered, and are shown.
C10_BestEffortPurge ==
    \A u \in Users :
        del[u].status = "raised" =>
            /\ qry[u].status = "returned"
            /\ qry[u].top_jobs # <<>>
            /\ ss[u].has_matches
            /\ ss[u].matches = qry[u].top_jobs
            /\ Displayed(ss[u]) = qry[u].top_jobs

C10_Witness ==
    /\ del["u1"].status = "raised"
    /\ pc["u1"] = "ended"
    /\ Len(ss["u1"].matches) = 3

(***************************************************************************)
(* Claims about ingestion, checked under SpecIngest                        *)
(***************************************************************************)
\* the valid records of a list: those with a description that is not blank
Valid(jobs) == SelectSeq(jobs, LAMBDA job : ~Blank(job.description))

\* C5: ingest_jobs_batch drops the records whose description is missing,
\* empty or whitespace only: none is sent to the embedding provider, none is
\* persisted, and none makes the run fail; when the run returns, the session
\* tag holds one record per job_id of the other records.
C5_Validation ==
    \A u \in Users :
        LET g == ing[u]
        IN  /\ g.status # "idle" => g.valid_jobs = Valid(g.jobs_data)
            /\ \A k \in 1..Len(g.frame.calls) : \A t \in 1..Len(g.frame.calls[k]) :
                  ~Blank(g.frame.calls[k][t])
            /\ \A d \in store : ~Blank(d.description)
            /\ g.status = "raised" =>
                  g.error \in EmbedErrors \cup {MsgMaxRetriesBatch, Msg409, MsgContention, Msg403}
            /\ (g.status # "idle" /\ Valid(g.jobs_data) = <<>>)
                  => (g.status = "returned" /\ g.all_results = <<>>)
            /\ g.status = "returned" =>
                  {d.job_id : d \in {e \in store : e.session_id = g.session_id}}
                      = {Str(Valid(g.jobs_data)[k].job_id) : k \in 1..Len(Valid(g.jobs_data))}

\* one record with description "" and two valid ones: two records persisted
C5_Witness ==
    /\ ing["u1"].status = "returned"
    /\ ing["u1"].jobs_data = FileBlank
    /\ Cardinality({d \in store : d.session_id = ing["u1"].session_id}) = 2
    /\ Cardinality(store) = 2

\* the last record of a list with the job_id that spells id
LastWith(jobs, id) ==
    jobs[CHOOSE k \in 1..Len(jobs) :
            /\ Str(jobs[k].job_id) = id
            /\ \A m \in (k + 1)..Len(jobs) : Str(jobs[m].job_id) # id]

\* C6: no two records of the store share a job_id, and when a run returns,
\* the record of each job_id it ingested is the one of its last valid record
\* with that job_id, field for field, whatever the store held before.
C6_Reingest ==
    /\ \A d, e \in store : d.job_id = e.job_id => d = e
    /\ \A u \in Users :
          LET g == ing[u]
          IN  g.status = "returned" =>
                \A k \in 1..Len(Valid(g.jobs_data)) :
                    LET id == Str(Valid(g.jobs_data)[k].job_id)
                        last == LastWith(Valid(g.jobs_data), id)
                    IN  \E d \in store :
                          /\ d.job_id = id
                          /\ d.description = last.description
                          /\ d.date = last.date
                          /\ d.embedding = Embed(last.description)
                          /\ d.session_id = g.session_id

\* a later run has replaced a record by one with another description and date
C6_Witness ==
    /\ ing["u1"].status = "returned"
    /\ \E r \in ing["u1"].replaced : \E d \in store :
          /\ d.job_id = r.job_id
          /\ r.session_id # d.session_id
          /\ r.description # d.description
          /\ r.date # d.date

\* the errors of a commit that signal contention, and the one that does not
ContentionErrors == {Msg409, MsgContention}

\* the answer a commit attempt has just been given
LastAnswer(g) == g.answers[Len(g.answers)]

\* C11: a commit attempt of ingest_jobs_batch is one of at most three for its
\* chunk (attempts 0, 1, 2).  Answered with a contention signal on the first
\* or second, the run sleeps 2^attempt seconds (1, then 2) and stays at the
\* commit of the same chunk with the same vectors, no provider call made;
\* answered with it on the third, or with any other error on any attempt,
\* the run raises that error at once, without a sleep.
C11_CommitRetry ==
    [][\A u \in Users :
          LET g == ing[u]
              h == ing'[u]
          IN  (g.status = "committing" /\ h # g) =>
                /\ g.attempt \in 0..2
                /\ Len(h.answers) = Len(g.answers) + 1
                /\ LastAnswer(h).i = g.i /\ LastAnswer(h).attempt = g.attempt
                /\ LET a == LastAnswer(h)
                   IN  CASE a.ok -> h.status \in {"embedding", "returned"} /\ h.sleeps = g.sleeps
                         [] a.msg \in ContentionErrors /\ a.attempt < 2 ->
                              /\ h.status = "committing"
                              /\ h.attempt = g.attempt + 1
                              /\ h.sleeps = Append(g.sleeps, 2 ^ g.attempt)
                              /\ h.i = g.i
                              /\ h.embeddings = g.embeddings
                              /\ h.frame = NoFrame
                              /\ store' = store
                         [] OTHER ->
                              /\ h.status = "raised"
                              /\ h.error = a.msg
                              /\ h.sleeps = g.sleeps
                              /\ store' = store]_vars

\* a chunk's commit was attempted three times, with waits of 1 and 2 seconds,
\* and the contention signal of the third attempt was raised
C11_Witness ==
    LET g == ing["u1"]
    IN  /\ g.status = "raised"
        /\ g.sleeps = <<1, 2>>
        /\ Len(g.answers) = 3
        /\ g.answers[3].attempt = 2
        /\ g.error = MsgContention
        /\ g.answers[1].msg = Msg409

\* the records a run has under its tag when the first n of its valid records
\* have been committed: one per job_id, the last written standing
RECURSIVE Persisted(_, _)
Persisted(g, n) ==
    IF n = 0 THEN {}
    ELSE LET job == Valid(g.jobs_data)[n]
             doc == [id |-> Str(job.job_id), job_id |-> Str(job.job_id),
                     description |-> job.description, date |-> job.date,
                     embedding |-> Embed(job.description),
                     session_id |-> g.session_id]
         IN  {d \in Persisted(g, n - 1) : d.id # doc.id} \cup {doc}

\* the records of the store under a run's tag
Tagged(g) == {d \in store : d.session_id = g.session_id}

\* the descriptions of the valid records at positions i+1 .. i+30
ChunkTexts(g, i) ==
    LET valid == Valid(g.jobs_data)
    IN  [k \in 1..(Min(i + 30, Len(valid)) - i) |-> valid[i + k].description]

\* C12: a run of ingest_jobs_batch works at one chunk at a time, the chunk at
\* offset i being the valid records i+1 .. i+30 (or to the last): while the
\* chunk is embedded or committed, and when the run has raised at it, the
\* store holds under the run's tag the records of the chunks before it, all
\* of them and nothing of this chunk or a later one; every provider call
\* carries the descriptions of this chunk and no other; when the run returns,
\* all valid records are persisted.
C12_ChunkSequence ==
    \A u \in Users :
        LET g == ing[u]
            total == Len(Valid(g.jobs_data))
        IN  g.status # "idle" =>
              /\ g.i % 30 = 0
              /\ g.i = 0 \/ g.i < total
              /\ g.committed * 30 = IF g.status = "returned" /\ total > 0
                                    THEN g.i + 30 ELSE g.i
              /\ g.status \in {"embedding", "committing", "raised"} =>
                    Tagged(g) = Persisted(g, g.i)
              /\ g.status = "returned" => Tagged(g) = Persisted(g, total)
              /\ g.status = "embedding" => g.frame.texts = ChunkTexts(g, g.i)
              /\ \A k \in 1..Len(g.frame.calls) : g.frame.calls[k] = ChunkTexts(g, g.i)
              /\ g.status = "committing" =>
                    g.embeddings = [k \in 1..Len(ChunkTexts(g, g.i)) |->
                                       Embed(ChunkTexts(g, g.i)[k])]

\* the third chunk's commit was refused: the run has raised, the sixty
\* records of the two chunks before it are persisted, the last one is not
C12_Witness ==
    LET g == ing["u1"]
    IN  /\ g.status = "raised"
        /\ g.jobs_data = FileLonger
        /\ g.i = 60
        /\ g.error = Msg403
        /\ Cardinality(Tagged(g)) = 60
        /\ \A d \in store : d.id # Str(62)

\* C13: when ingest_jobs_batch returns, all_results holds one confirmation
\* {job_id, embedding_dim} per valid input record, in input order, and so is
\* as long as the list of valid records, whether or not a commit was retried.
C13_Confirmations ==
    \A u \in Users :
        LET g == ing[u]
            valid == Valid(g.jobs_data)
        IN  g.status = "returned" =>
              g.all_results = [k \in 1..Len(valid) |->
                                  [job_id |-> Str(valid[k].job_id),
                                   embedding_dim |-> Len(Embed(valid[k].description))]]

(***************************************************************************)
(* Claims about the purge, checked under SpecPurge                         *)
(***************************************************************************)
\* the records of a set of documents under a tag, and the others
Under(docs, tag) == {d \in docs : d.session_id = tag}
NotUnder(docs, tag) == {d \in docs : d.session_id # tag}

\* the least number of commits of at most 500 deletes that take n deletes
CommitsFor(n) == (n + 499) \div 500

\* C14: every step of delete_session_vacancies(S) leaves the records whose
\* session_id differs from S as they were, and no commit deletes more than
\* 500 records; when the call has returned for a non-empty S, no record with
\* session_id = S is left, whether its stream held fewer than 500 records,
\* 500 or more, and it has made as many commits as that number takes, none
\* at all for no record; for no S it commits nothing and deletes nothing.
C14_PurgeByScope ==
    [][\A u \in Users :
          LET d == del'[u]
          IN  (d # del[u] /\ d.status # "idle") =>
                /\ NotUnder(store', d.session_id) = NotUnder(store, d.session_id)
                /\ Cardinality(store) - Cardinality(store') <= 500
                /\ d.status = "returned" =>
                      IF d.session_id \in {None, <<>>}
                      THEN store' = store /\ d.commits = 0
                      ELSE /\ Under(store', d.session_id) = {}
                           /\ d.commits = CommitsFor(d.streamed)
                           /\ d.streamed = 0 => store' = store]_vars

\* a purge of 501 records has returned after two commits, the records of
\* another tag still in the store
C14_Witness ==
    LET d == del["u1"]
    IN  /\ d.status = "returned"
        /\ d.streamed = 501
        /\ d.commits = 2
        /\ store # {}
        /\ Under(store, d.session_id) = {}

(***************************************************************************)
(* Claims about sessions sharing the store, checked under SpecShare        *)
(***************************************************************************)
\* a step leaves the locals of session u alone: it is a step of another one
StepOfAnother(u) ==
    /\ pc'[u] = pc[u]
    /\ ing'[u] = ing[u]
    /\ qry'[u] = qry[u]
    /\ del'[u] = del[u]
    /\ ss'[u] = ss[u]

\* C15: no step of another session, of its ingestion or of its purge,
\* removes or re-tags a record that carries the tag of session A, so that
\* every record A has ingested is there for A's query until A's own purge,
\* also when both sessions uploaded records with the same job_id.
C15_Independence ==
    [][\A A \in Users :
          StepOfAnother(A) =>
             \A d \in store : d.session_id = ss[A].session_id => d \in store']_vars

====
